---- MODULE Spec2Model ----
(***************************************************************************)
(* A model of the Yieldera DataHub job store, job executor, job routes and *)
(* request cache (src/datahub/jobs.py, src/datahub/routes.py,              *)
(* src/datahub/caching.py).                                                *)
(*                                                                         *)
(* Python values are modelled as follows.                                  *)
(*   - an Optional value is a sequence of length 0 or 1: None is << >> and *)
(*     a present value x is <<x>>;                                         *)
(*   - the jobs directory is a function from the ids that have a file to   *)
(*     the record stored in that file;                                     *)
(*   - datetime.utcnow() is the variable now, counted in ticks; ages       *)
(*     (days, ttl) are given in the same ticks;                            *)
(*   - uuid.uuid4() is an identifier that was never issued before.         *)
(***************************************************************************)
EXTENDS Integers, Sequences, FiniteSets, TLC

VARIABLES
    files,      \* jobs directory: job id -> contents of <job id>.json
    issued,     \* identifiers uuid4 has returned so far
    now,        \* the clock
    cache,      \* cache directory: file name -> [text, mtime]
    written,    \* history: <<request parameters, format>> -> the value and
                \* time of the latest set(parameters, value, format)
    threads,    \* the update_job calls in progress: thread -> its position
                \* in the function and its local variables
    torn,       \* ids of the job files that hold an incomplete JSON text
    last        \* the operation that ran last, its target and what it returned
                \* (ret is a record whose fields depend on the operation)

vars == <<files, issued, now, cache, written, threads, torn, last>>

----------------------------------------------------------------------------
(* Bounds and input sets                                                   *)

MaxTime == 1
MaxDays == 1
MaxImages == 2
\* the number of jobs the lifecycle specification (Spec) creates
MaxJobs == 1
\* the clock bound of the cache specification, and the cache's ttl in ticks
MaxCacheTime == 3
Ttl == 1
\* the last calendar day of the timeseries model (days are numbered from 0)
MaxDate == 2
\* the largest number of rows of a period handed to the statistics
MaxLen == 3

JobIds == {"j1", "j2"}

\* the threads that run update_job at the same time
Threads == {"t1", "t2"}

None == << >>
Some(x) == <<x>>

Min(a, b) == IF a < b THEN a ELSE b
Max(a, b) == IF a > b THEN a ELSE b

\* a thread that has not called update_job
Idle == [pc |-> "idle", job_id |-> "",
         args |-> [status |-> None, progress |-> None, error |-> None,
                   download_urls |-> None],
         job_data |-> None, ret |-> FALSE, overlaid |-> FALSE]

----------------------------------------------------------------------------
(* JobStatus                                                               *)

QUEUED == "queued"
RUNNING == "running"
DONE == "done"
ERROR == "error"
JobStatus == {QUEUED, RUNNING, DONE, ERROR}

----------------------------------------------------------------------------
(* JobStore                                                                *)

\* _save_job: (over)writes the one file <job_id>.json
_save_job(store, job_id, job_data) ==
    [i \in (DOMAIN store) \cup {job_id} |->
        IF i = job_id THEN job_data ELSE store[i]]

\* create_job storing the job as already running
create_job_running(store, job_id, job_type, request_data, user_id, t) ==
    _save_job(store, job_id,
        [job_id        |-> job_id,
         job_type      |-> job_type,
         status        |-> RUNNING,
         progress      |-> 0,
         request_data  |-> request_data,
         user_id       |-> user_id,
         created_at    |-> t,
         updated_at    |-> t,
         error         |-> None,
         download_urls |-> None])

\* create_job; job_id is the value uuid4 returned, t is utcnow()
create_job(store, job_id, job_type, request_data, user_id, t) ==
    _save_job(store, job_id,
        [job_id        |-> job_id,
         job_type      |-> job_type,
         status        |-> QUEUED,
         progress      |-> 0,
         request_data  |-> request_data,
         user_id       |-> user_id,
         created_at    |-> t,
         updated_at    |-> t,
         error         |-> None,
         download_urls |-> None])

\* get_job: None when the file does not exist, else the record read from it
get_job(store, job_id) ==
    IF job_id \notin DOMAIN store THEN None ELSE Some(store[job_id])

\* get_job on a directory where the files of the ids in partial are being
\* rewritten: json.load of an incomplete text raises, and the handler returns None
get_job_from_disk(store, partial, job_id) ==
    IF job_id \notin DOMAIN store THEN None
    ELSE IF job_id \in partial THEN None
    ELSE Some(store[job_id])

\* the assignments of update_job between get_job and _save_job
update_fields(job_data, status, progress, error, download_urls, t) ==
    LET d1 == IF status # None THEN [job_data EXCEPT !.status = status[1]] ELSE job_data
        d2 == IF progress # None
              THEN [d1 EXCEPT !.progress = Max(0, Min(100, progress[1]))]
              ELSE d1
        d3 == IF error # None THEN [d2 EXCEPT !.error = error] ELSE d2
        d4 == IF download_urls # None
              THEN [d3 EXCEPT !.download_urls = download_urls]
              ELSE d3
    IN [d4 EXCEPT !.updated_at = t]

\* update_job assigning error without testing it for None
update_job_resets_error(store, job_id, status, progress, error, download_urls, t) ==
    LET got == get_job(store, job_id) IN
    IF got = None
    THEN [ret |-> FALSE, store |-> store]
    ELSE
      LET d0 == got[1]
          d1 == IF status # None THEN [d0 EXCEPT !.status = status[1]] ELSE d0
          d2 == IF progress # None
                THEN [d1 EXCEPT !.progress = Max(0, Min(100, progress[1]))]
                ELSE d1
          d3 == [d2 EXCEPT !.error = error]
          d4 == IF download_urls # None
                THEN [d3 EXCEPT !.download_urls = download_urls]
                ELSE d3
          d5 == [d4 EXCEPT !.updated_at = t]
      IN [ret |-> TRUE, store |-> _save_job(store, job_id, d5)]

\* update_job: the four keyword arguments are Optional
update_job(store, job_id, status, progress, error, download_urls, t) ==
    LET got == get_job(store, job_id) IN
    IF got = None
    THEN [ret |-> FALSE, store |-> store]
    ELSE [ret |-> TRUE,
          store |-> _save_job(store, job_id,
                        update_fields(got[1], status, progress, error,
                                      download_urls, t))]

mark_running(store, job_id, t) ==
    update_job(store, job_id, Some(RUNNING), Some(10), None, None, t)

\* mark_done without its progress argument
mark_done_no_progress(store, job_id, download_urls, t) ==
    update_job(store, job_id, Some(DONE), None, None, Some(download_urls), t)

\* download_urls is a dict
mark_done(store, job_id, download_urls, t) ==
    update_job(store, job_id, Some(DONE), Some(100), None, Some(download_urls), t)

\* mark_error putting the failed job back in the queue
mark_error_requeue(store, job_id, error, t) ==
    update_job(store, job_id, Some(QUEUED), None, Some(error), None, t)

\* error is a str
mark_error(store, job_id, error, t) ==
    update_job(store, job_id, Some(ERROR), None, Some(error), None, t)

\* cleanup_old_jobs comparing with <= instead of <
cleanup_old_jobs_inclusive(store, days, t) ==
    LET cutoff == t - days IN
    [i \in {j \in DOMAIN store : ~(store[j].created_at <= cutoff)} |-> store[i]]

\* cleanup_old_jobs: unlinks every file whose created_at is before the cutoff
cleanup_old_jobs(store, days, t) ==
    LET cutoff == t - days IN
    [i \in {j \in DOMAIN store : ~(store[j].created_at < cutoff)} |-> store[i]]

----------------------------------------------------------------------------
(* Request bodies and job types                                            *)

\* A GeoTIFF request body as the executor reads it: the "geometry" key
\* (absent, or a geometry of some type) and the optional "tiff_mode" key.
ReqDefault == [geometry |-> Some("point"), tiff_mode |-> None]
ReqZip == [geometry |-> Some("point"), tiff_mode |-> Some("zip")]
ReqNoGeometry == [geometry |-> None, tiff_mode |-> None]
Requests == {ReqDefault, ReqZip, ReqNoGeometry}

JobTypes == {"chirps_geotiff", "era5_geotiff", "smap_geotiff"}

\* the substring test  word in job_type  on the modelled job types
InJobType(word, job_type) ==
    <<word, job_type>> \in {<<"chirps", "chirps_geotiff">>, <<"era5", "era5_geotiff">>}

\* What the Earth Engine backend answers to one export: it fails, or it holds
\* count images (days) for the range.
Backends == [fails : BOOLEAN, count : 0..MaxImages]

Exc(type, msg) == [type |-> type, msg |-> msg]

----------------------------------------------------------------------------
(* Extractors                                                              *)

ZipLimit == 31
BandLimit == 366

\* the files list of a zip export: one entry per image, at most ZipLimit
ZipFiles(count) == [i \in 1..Min(count, ZipLimit) |-> [url |-> "url"]]

\* CHIRPSExtractor.export_geotiff / ERA5LandExtractor.export_geotiff:
\* [exc, result]; every failure leaves as a GEEError
export_geotiff(dataset, export_mode, backend) ==
    IF backend.fails
    THEN [exc |-> Some(Exc("GEEError", "GEE error exporting GeoTIFF")),
          result |-> None]
    ELSE IF backend.count = 0
    THEN [exc |-> Some(Exc("GEEError", "No data found")), result |-> None]
    ELSE IF export_mode = "multiband"
    THEN [exc |-> None,
          result |-> Some([mode |-> "multiband", url |-> "url",
                           files |-> << >>,
                           count |-> Min(backend.count, BandLimit)])]
    ELSE [exc |-> None,
          result |-> Some([mode |-> "zip", url |-> "",
                           files |-> ZipFiles(backend.count),
                           count |-> Len(ZipFiles(backend.count))])]

----------------------------------------------------------------------------
(* JobExecutor                                                             *)

\* a handler that catches the extractor's errors only
except_GEEError(e) ==
    e.type = "GEEError"

\* a handler that catches the operating system's errors only
except_OSError(e) ==
    e.type = "OSError"

\* the clause  except Exception  of execute_geotiff_job, RequestCache.get and
\* RequestCache.set (json.JSONDecodeError is a ValueError)
except_Exception(e) ==
    e.type \in {"KeyError", "TypeError", "ValueError", "GEEError", "OSError",
                "EEException"}

\* the statements of the try block after mark_running, up to the export:
\* the first exception raised, or the export's result
run_export(job_data, backend) ==
    LET request == job_data.request_data
        job_type == job_data.job_type
        tiff_mode == IF request.tiff_mode = None THEN "multiband"
                     ELSE request.tiff_mode[1]
    IN
    IF request.geometry = None
    THEN [exc |-> Some(Exc("KeyError", "'geometry'")), result |-> None]
    ELSE IF InJobType("chirps", job_type)
    THEN export_geotiff("chirps", tiff_mode, backend)
    ELSE IF InJobType("era5", job_type)
    THEN export_geotiff("era5", tiff_mode, backend)
    ELSE [exc |-> Some(Exc("ValueError", "Unknown job type")), result |-> None]

\* the download_urls dict built from an export result
result_urls(result) ==
    IF result.mode = "multiband"
    THEN [tif |-> Some(result.url)]
    ELSE [tif |-> IF result.files # << >> THEN Some(result.files[1].url) ELSE None]

\* execute_geotiff_job: the store afterwards, and the exception that leaves the
\* function (None when it returns normally)
execute_geotiff_job(store, job_id, backend, t) ==
    LET got == get_job(store, job_id) IN
    IF got = None
    THEN [store |-> store, raised |-> None]
    ELSE
      LET job_data == got[1]
          s1 == mark_running(store, job_id, t).store
          ex == run_export(job_data, backend)
      IN
      IF ex.exc = None
      THEN LET s2 == update_job(s1, job_id, None, Some(80), None, None, t).store
           IN [store |-> mark_done(s2, job_id, result_urls(ex.result[1]), t).store,
               raised |-> None]
      ELSE IF except_Exception(ex.exc[1])
      THEN [store |-> mark_error(s1, job_id, ex.exc[1].msg, t).store,
            raised |-> None]
      ELSE [store |-> s1, raised |-> ex.exc]

----------------------------------------------------------------------------
(* Routes                                                                  *)

\* job_status: the HTTP status code
job_status(store, job_id) ==
    IF get_job(store, job_id) = None THEN [code |-> 404] ELSE [code |-> 200]

\* job_download refusing failed jobs only
job_download_unless_error(store, job_id, format_type) ==
    LET got == get_job(store, job_id) IN
    IF got = None THEN [code |-> 404, location |-> None]
    ELSE IF got[1].status = "error" THEN [code |-> 400, location |-> None]
    ELSE IF format_type # "tif" THEN [code |-> 404, location |-> None]
    ELSE IF got[1].download_urls = None THEN [code |-> 500, location |-> None]
    ELSE IF got[1].download_urls[1].tif # None
    THEN [code |-> 302, location |-> got[1].download_urls[1].tif]
    ELSE [code |-> 404, location |-> None]

\* job_download: the HTTP status code and, for a redirect, its target
job_download(store, job_id, format_type) ==
    LET got == get_job(store, job_id) IN
    IF got = None THEN [code |-> 404, location |-> None]
    ELSE IF got[1].status # "done" THEN [code |-> 400, location |-> None]
    ELSE IF format_type # "tif" THEN [code |-> 404, location |-> None]
    \* job.get('download_urls', {}) is None here: AttributeError, uncaught
    ELSE IF got[1].download_urls = None THEN [code |-> 500, location |-> None]
    ELSE IF got[1].download_urls[1].tif # None
    THEN [code |-> 302, location |-> got[1].download_urls[1].tif]
    ELSE [code |-> 404, location |-> None]

\* chirps_geotiff / era5land_geotiff: body is None when request.get_json()
\* raises on a malformed body, else the parsed JSON
geotiff_route(store, job_type, body, job_id, t) ==
    IF body = None
    THEN [code |-> 500, store |-> store]
    ELSE [code |-> 202, store |-> create_job(store, job_id, job_type, body[1], None, t)]

----------------------------------------------------------------------------
(* RequestCache                                                            *)

\* A request-parameter dict is the sequence of its <<key, value>> items in
\* insertion order; two dicts are equal when they hold the same items.
AsDict(p) == {p[i] : i \in DOMAIN p}

P1 == << <<"dataset", "chirps">>, <<"start", "2024-01-01">> >>
P1r == << <<"start", "2024-01-01">>, <<"dataset", "chirps">> >>
P2 == << <<"dataset", "era5land">>, <<"start", "2024-01-01">> >>
Params == {P1, P1r, P2}

\* the keys of the modelled dicts in sorted order
SortedKeys == <<"dataset", "start">>

\* Python values: a scalar (written as its JSON token), a list or a tuple of
\* scalars, or an object json cannot serialise
Scalar(tok) == [t |-> "scalar", v |-> <<tok>>]
List(toks) == [t |-> "list", v |-> toks]
Tuple(toks) == [t |-> "tuple", v |-> toks]
Object == [t |-> "object", v |-> << >>]
PyNone == Scalar("null")

JsonValues == {Scalar("1"), List(<<"1", "null">>)}
PyValues == JsonValues \cup {Tuple(<<"1", "null">>), Object}

\* json.dumps / json.dump: the text as a sequence of tokens, None on TypeError
JsonDump(val) ==
    IF val.t = "scalar" THEN Some(val.v)
    ELSE IF val.t \in {"list", "tuple"} THEN Some(<<"[">> \o val.v \o <<"]">>)
    ELSE None

\* json.load: the value read, None on JSONDecodeError
JsonLoad(text) ==
    IF Len(text) = 0 THEN None
    ELSE IF text[1] = "["
    THEN IF Len(text) >= 2 /\ text[Len(text)] = "]"
         THEN Some(List(SubSeq(text, 2, Len(text) - 1)))
         ELSE None
    ELSE IF Len(text) = 1 /\ text[1] # "]" THEN Some(Scalar(text[1]))
    ELSE None

\* a cache key computed from the names of the parameters only
_compute_cache_key_names_only(request_data) ==
    SelectSeq(SortedKeys, LAMBDA k : \E i \in DOMAIN request_data : request_data[i][1] = k)

\* _compute_cache_key: sha256 of json.dumps(request_data, sort_keys=True);
\* sha256 is taken to be free of collisions, so the key is the dumped text
_compute_cache_key(request_data) ==
    LET keys == SelectSeq(SortedKeys,
                    LAMBDA k : \E i \in DOMAIN request_data : request_data[i][1] = k)
        ValueOf(k) == (CHOOSE item \in AsDict(request_data) : item[1] = k)[2]
    IN [i \in DOMAIN keys |-> <<keys[i], ValueOf(keys[i])>>]

\* the cache file of a key and a format; None for an unknown format
cache_file(cache_key, format) ==
    IF format = "json" THEN Some(<<cache_key, ".json">>)
    ELSE IF format = "csv" THEN Some(<<cache_key, ".csv">>)
    ELSE IF format = "tiff" THEN Some(<<cache_key, ".tif">>)
    ELSE None

Unlink(dir, f) == [g \in (DOMAIN dir) \ {f} |-> dir[g]]

\* What can go wrong outside the program during one call: nothing, the
\* parameters cannot be dumped to compute the key, the file cannot be opened or
\* read, it cannot be unlinked, the write stops half way, the copy fails.
NoFault == "none"
GetFaults == {NoFault, "key", "read", "unlink"}

\* the try block of RequestCache.get at time t: the exception it raises (None
\* when it returns), the value it returns and the directory afterwards
cache_get_body(dir, request_data, format, t, fault) ==
    LET cf == cache_file(_compute_cache_key(request_data), format)
        Raise(type, d) == [exc |-> Some(Exc(type, "")), ret |-> PyNone, dir |-> d]
        Return(v, d) == [exc |-> None, ret |-> v, dir |-> d]
    IN
    IF fault = "key" THEN Raise("TypeError", dir)
    ELSE IF cf = None THEN Return(PyNone, dir)
    ELSE IF cf[1] \notin DOMAIN dir THEN Return(PyNone, dir)
    ELSE IF t - dir[cf[1]].mtime > Ttl
    THEN IF fault = "unlink" THEN Raise("OSError", dir)
         ELSE Return(PyNone, Unlink(dir, cf[1]))
    ELSE IF format = "json"
    THEN IF fault = "read" THEN Raise("OSError", dir)
         ELSE LET loaded == JsonLoad(dir[cf[1]].text) IN
              IF loaded = None THEN Raise("ValueError", dir)
              ELSE Return(loaded[1], dir)
    ELSE Return(Scalar("path"), dir)

\* RequestCache.get with its handler: the value returned, the directory
\* afterwards and whether an exception leaves the call
cache_get_io(dir, request_data, format, t, fault) ==
    LET b == cache_get_body(dir, request_data, format, t, fault) IN
    IF b.exc = None THEN [ret |-> b.ret, dir |-> b.dir, raised |-> FALSE]
    ELSE IF except_Exception(b.exc[1])
    THEN [ret |-> PyNone, dir |-> b.dir, raised |-> FALSE]
    ELSE [ret |-> PyNone, dir |-> b.dir, raised |-> TRUE]

\* RequestCache.get at time t when nothing goes wrong outside the program
cache_get(dir, request_data, format, t) ==
    LET r == cache_get_io(dir, request_data, format, t, NoFault) IN
    [ret |-> r.ret, dir |-> r.dir]

\* the try block of RequestCache.set at time t: the exception it raises,
\* whether it returns a path, and the directory afterwards.  For "json",
\* open(.., 'w') truncates the file before json.dump runs; for "csv" and
\* "tiff", data is the source file and shutil.copy2 copies its content together
\* with its modification time.
cache_set_body(dir, request_data, data, format, t, fault) ==
    LET cf == cache_file(_compute_cache_key(request_data), format)
        Write(f, txt, m) == [g \in (DOMAIN dir) \cup {f} |->
                                IF g = f THEN [text |-> txt, mtime |-> m] ELSE dir[g]]
        Raise(type, d) == [exc |-> Some(Exc(type, "")), ok |-> FALSE, dir |-> d]
        Return(ok, d) == [exc |-> None, ok |-> ok, dir |-> d]
    IN
    IF fault = "key" THEN Raise("TypeError", dir)
    ELSE IF cf = None THEN Return(FALSE, dir)
    ELSE IF format = "json"
    THEN IF fault = "open" THEN Raise("OSError", dir)
         ELSE LET text == JsonDump(data) IN
              IF text = None THEN Raise("TypeError", Write(cf[1], << >>, t))
              ELSE IF fault = "write"
              THEN Raise("OSError",
                         Write(cf[1], SubSeq(text[1], 1, Len(text[1]) - 1), t))
              ELSE Return(TRUE, Write(cf[1], text[1], t))
    ELSE IF fault = "copy" THEN Raise("OSError", dir)
    ELSE Return(TRUE, Write(cf[1], data.text, data.mtime))

\* RequestCache.set with its handler: whether a path was returned (not the
\* empty string), the directory afterwards, whether an exception leaves the call
cache_set_io(dir, request_data, data, format, t, fault) ==
    LET b == cache_set_body(dir, request_data, data, format, t, fault) IN
    IF b.exc = None THEN [ok |-> b.ok, dir |-> b.dir, raised |-> FALSE]
    ELSE IF except_Exception(b.exc[1])
    THEN [ok |-> FALSE, dir |-> b.dir, raised |-> FALSE]
    ELSE [ok |-> FALSE, dir |-> b.dir, raised |-> TRUE]

\* RequestCache.set at time t when nothing goes wrong outside the program
cache_set(dir, request_data, data, format, t) ==
    LET r == cache_set_io(dir, request_data, data, format, t, NoFault) IN
    [ok |-> r.ok, dir |-> r.dir]

\* RequestCache.clear_expired at time t
clear_expired(dir, t) ==
    [f \in {g \in DOMAIN dir : ~(t - dir[g].mtime > Ttl)} |-> dir[f]]

----------------------------------------------------------------------------
(* Date ranges and timeseries extraction                                   *)

\* Calendar days, numbered; a date string 'YYYY-MM-DD' is its day number
Dates == 0..MaxDate

NODATA_VALUE == -999

\* validate_date_range with days = end - start: the exception raised, or None
validate_date_range_exclusive(start_date, end_date, max_days) ==
    LET days == end_date - start_date IN
    IF days > max_days THEN Some(Exc("ValueError", "Date range too long"))
    ELSE IF days < 1 THEN Some(Exc("ValueError", "Invalid date range"))
    ELSE None

\* validate_date_range: the exception raised, or None when it returns
validate_date_range(start_date, end_date, max_days) ==
    LET days == (end_date - start_date) + 1 IN
    IF days > max_days THEN Some(Exc("ValueError", "Date range too long"))
    ELSE IF days < 1 THEN Some(Exc("ValueError", "Invalid date range"))
    ELSE None

\* DateRangeInput.validate_date_order: the exception raised, or None
validate_date_order(start, end) ==
    IF start > end THEN Some(Exc("ValueError", "start date must be before or equal to end date"))
    ELSE None

\* What Earth Engine holds for one calendar day: images with a value, images
\* whose reduction is null, no image, or a request for that day fails
DayStates == {"value", "null", "missing", "fails"}

\* One Earth Engine backend: the state of every day, and whether filterDate
\* with an empty range (end not after start) is answered with an error or with
\* an empty collection
TsBackends == [day : [Dates -> DayStates], empty_range_error : BOOLEAN]

\* the measurement of a day that has one
DayValue(d) == 10 + d

\* the days of a collection filtered with filterDate(start, end): the end date
\* is exclusive
filterDate(backend, start, end) ==
    {d \in DOMAIN backend.day : start <= d /\ d < end /\ backend.day[d] # "missing"}

\* the days of a set in ascending order
Ascending(days) ==
    IF days = {} THEN << >>
    ELSE LET hi == CHOOSE d \in days : \A e \in days : e <= d
         IN SelectSeq([i \in 1..(hi + 1) |-> i - 1], LAMBDA d : d \in days)

\* the value recorded for a day: NODATA_VALUE when the reduction is null
Reduced(backend, d) ==
    IF backend.day[d] = "value" THEN DayValue(d) ELSE NODATA_VALUE

\* CHIRPSExtractor.get_timeseries: one getInfo for the whole collection.
\* [exc, data, calls]: the exception raised, the rows returned, the number of
\* requests sent to Earth Engine
chirps_get_timeseries(start_date, end_date, backend) ==
    LET days == filterDate(backend, start_date, end_date)
        seq == Ascending(days)
    IN
    IF end_date <= start_date /\ backend.empty_range_error
    THEN [exc |-> Some(Exc("GEEError", "GEE error extracting CHIRPS timeseries")),
          data |-> << >>, calls |-> 1]
    ELSE IF \E d \in days : backend.day[d] = "fails"
    THEN [exc |-> Some(Exc("GEEError", "GEE error extracting CHIRPS timeseries")),
          data |-> << >>, calls |-> 1]
    ELSE [exc |-> None,
          data |-> [i \in DOMAIN seq |->
                      [date |-> seq[i], values |-> <<Reduced(backend, seq[i])>>]],
          calls |-> 1]

\* the row of a day whose values are all the sentinel
NodataRow(d, n) == [date |-> d, values |-> [k \in 1..n |-> NODATA_VALUE]]

\* the try block of one iteration of the loop of
\* ERA5LandExtractor.get_timeseries: the row for the day (tmin_c, tmax_c,
\* tavg_c), or the exception raised
era5_day_body(backend, d) ==
    IF backend.day[d] = "fails"
    THEN [exc |-> Some(Exc("EEException", "")), row |-> None]
    ELSE IF backend.day[d] = "missing"
    THEN [exc |-> None, row |-> Some(NodataRow(d, 3))]
    ELSE [exc |-> None,
          row |-> Some([date |-> d, values |-> [k \in 1..3 |-> Reduced(backend, d)]])]

\* one iteration of the loop with its  except Exception as day_error
era5_day(backend, d) ==
    LET b == era5_day_body(backend, d) IN
    IF b.exc # None /\ except_Exception(b.exc[1])
    THEN [exc |-> None, row |-> Some(NodataRow(d, 3))]
    ELSE b

\* ERA5LandExtractor.get_timeseries: one row per day from start to end
era5_get_timeseries(start_date, end_date, backend) ==
    LET n == IF end_date >= start_date THEN (end_date - start_date) + 1 ELSE 0
        day(i) == era5_day(backend, start_date + i - 1)
    IN
    IF \E i \in 1..n : day(i).exc # None
    THEN [exc |-> Some(Exc("GEEError", "Error extracting ERA5-Land timeseries")),
          data |-> << >>, calls |-> n]
    ELSE [exc |-> None, data |-> [i \in 1..n |-> day(i).row[1]], calls |-> n]

\* the first day SMAP has data for (2015-03-31)
SmapStart == 1

\* SMAPExtractor.get_timeseries: the collection is filtered once, aggregated
\* to one image per day from its first to its last day, and each image is read
\* in a loop without a handler
smap_get_timeseries(start_date, end_date, backend) ==
    LET days == filterDate(backend, start_date, end_date)
        lo == CHOOSE d \in days : \A e \in days : d <= e
        hi == CHOOSE d \in days : \A e \in days : e <= d
        seq == Ascending(lo..hi)
    IN
    IF start_date < SmapStart
    THEN [exc |-> Some(Exc("ValueError", "SMAP data only available from 2015-03-31 onwards")),
          data |-> << >>, calls |-> 0]
    ELSE IF end_date <= start_date /\ backend.empty_range_error
    THEN [exc |-> Some(Exc("EEException", "")), data |-> << >>, calls |-> 1]
    ELSE IF days = {}
    THEN [exc |-> Some(Exc("ValueError", "No SMAP data available for date range")),
          data |-> << >>, calls |-> 1]
    ELSE IF \E d \in lo..hi : backend.day[d] \in {"fails", "missing"}
    THEN [exc |-> Some(Exc("EEException", "")), data |-> << >>, calls |-> 2]
    ELSE [exc |-> None,
          data |-> [i \in DOMAIN seq |->
                      [date |-> seq[i], values |-> [k \in 1..2 |-> Reduced(backend, seq[i])]]],
          calls |-> 2 + Len(seq)]

\* the number of days a timeseries request for ERA5-Land or SMAP may span
RouteMaxDays == 30

\* parse_geometry: ee.Geometry.Point([lon, lat]) is built from the numbers as
\* they come; only an unknown type raises
parse_geometry(geometry_dict) ==
    IF geometry_dict.type \notin {"point", "polygon"}
    THEN [exc |-> Some(Exc("ValueError", "Unsupported geometry type")), is_point |-> FALSE]
    ELSE [exc |-> None, is_point |-> geometry_dict.type = "point"]

\* The body of a timeseries request: no JSON, or a geometry and the dates.
\* The geometry dicts are points inside and outside the ranges of latitude
\* and longitude (whole degrees), and a type the routes do not know
TsBodies ==
    LET Geometries ==
            {[type |-> "point", lat |-> lat, lon |-> lon] :
                lat \in {-17, 95}, lon \in {31, 181}}
            \cup {[type |-> "circle", lat |-> 0, lon |-> 0]}
    IN {None} \cup {Some([geometry |-> g, start |-> a, end |-> b]) :
                       g \in Geometries, a \in Dates, b \in Dates}

\* the except clauses of the timeseries routes: the status code for an exception
route_except(e) ==
    IF e.type = "ValueError" THEN 400 ELSE 500

\* chirps_timeseries, era5land_timeseries, smap_timeseries: the status code,
\* the rows sent, the number of requests sent to Earth Engine, and the
\* max_days field of the answer that refuses a range as too long
timeseries_route(dataset, body, backend) ==
    LET Answer(code, r) == [code |-> code, data |-> r.data, calls |-> r.calls,
                            max_days |-> None]
        Reject(code) == [code |-> code, data |-> << >>, calls |-> 0, max_days |-> None]
        TooLong == [code |-> 400, data |-> << >>, calls |-> 0,
                    max_days |-> Some(RouteMaxDays)]
        Extract(r) == IF r.exc = None THEN Answer(200, r)
                      ELSE Answer(route_except(r.exc[1]), r)
    IN
    IF body = None THEN Reject(400)
    ELSE
      LET start_date == body[1].start
          end_date == body[1].end
          days_diff == end_date - start_date
      IN
      IF parse_geometry(body[1].geometry).exc # None
      THEN Reject(route_except(parse_geometry(body[1].geometry).exc[1]))
      ELSE IF dataset = "chirps"
      THEN Extract(chirps_get_timeseries(start_date, end_date, backend))
      ELSE IF dataset = "era5land"
      THEN IF days_diff > RouteMaxDays THEN TooLong
           ELSE Extract(era5_get_timeseries(start_date, end_date, backend))
      ELSE IF start_date < SmapStart THEN Reject(400)
      ELSE IF days_diff > RouteMaxDays THEN TooLong
      ELSE Extract(smap_get_timeseries(start_date, end_date, backend))

----------------------------------------------------------------------------
(* Statistics and period comparison                                        *)

\* Measurements are whole numbers; a float rounded to two decimals is held as
\* its number of hundredths.

\* a / b for b > 0, rounded to the nearest integer, a tie going to the even one
RoundDiv(a, b) ==
    LET q == a \div b
        r == a % b
    IN IF 2 * r < b THEN q
       ELSE IF 2 * r > b THEN q + 1
       ELSE IF q % 2 = 0 THEN q ELSE q + 1

\* a / b for b # 0, rounded
RoundQuot(a, b) == IF b > 0 THEN RoundDiv(a, b) ELSE RoundDiv(0 - a, 0 - b)

RECURSIVE SumSeq(_)
SumSeq(values) ==
    IF values = << >> THEN 0 ELSE Head(values) + SumSeq(Tail(values))

MinSeq(values) ==
    CHOOSE v \in {values[i] : i \in DOMAIN values} :
        \A i \in DOMAIN values : v <= values[i]

MaxSeq(values) ==
    CHOOSE v \in {values[i] : i \in DOMAIN values} :
        \A i \in DOMAIN values : v >= values[i]

\* the sequence without its element at position k
RemoveAt(values, k) ==
    [i \in 1..(Len(values) - 1) |-> IF i < k THEN values[i] ELSE values[i + 1]]

\* sorted(values)
RECURSIVE Sorted(_)
Sorted(values) ==
    IF values = << >> THEN << >>
    ELSE LET k == CHOOSE i \in DOMAIN values : values[i] = MinSeq(values)
         IN <<values[k]>> \o Sorted(RemoveAt(values, k))

\* the values of one field of the rows, in order
Column(timeseries, k) == [i \in DOMAIN timeseries |-> timeseries[i].values[k]]

\* the list comprehension  [v for v in values if v != -999]
Valid(values) == SelectSeq(values, LAMBDA v : v # NODATA_VALUE)

\* get_statistics computing over every value of the timeseries
smap_get_statistics_unfiltered(timeseries) ==
    LET calc(values) ==
            [mean |-> RoundDiv(100 * SumSeq(values), Len(values)),
             min |-> 100 * MinSeq(values),
             max |-> 100 * MaxSeq(values),
             median |-> 100 * Sorted(values)[(Len(values) \div 2) + 1],
             num_days |-> Len(values)]
    IN
    IF timeseries = << >>
    THEN [exc |-> Some(Exc("ValueError", "No valid data points found")), stats |-> None]
    ELSE [exc |-> None,
          stats |-> Some([sm_surface |-> calc(Column(timeseries, 1)),
                          sm_rootzone |-> calc(Column(timeseries, 2)),
                          total_days |-> Len(timeseries)])]

\* SMAPExtractor.get_statistics / FLDASExtractor.get_statistics applied to the
\* timeseries get_timeseries returned: the exception raised or the statistics
\* (floats in hundredths); the median is sorted(valid)[len(valid) // 2]
smap_get_statistics(timeseries) ==
    LET valid_surface == Valid(Column(timeseries, 1))
        valid_rootzone == Valid(Column(timeseries, 2))
        calc(values) ==
            [mean |-> RoundDiv(100 * SumSeq(values), Len(values)),
             min |-> 100 * MinSeq(values),
             max |-> 100 * MaxSeq(values),
             median |-> 100 * Sorted(values)[(Len(values) \div 2) + 1],
             num_days |-> Len(values)]
    IN
    IF valid_surface = << >> \/ valid_rootzone = << >>
    THEN [exc |-> Some(Exc("ValueError", "No valid data points found")), stats |-> None]
    ELSE [exc |-> None,
          stats |-> Some([sm_surface |-> calc(valid_surface),
                          sm_rootzone |-> calc(valid_rootzone),
                          total_days |-> Len(timeseries)])]

\* the measurements of the statistics model
Measurements == {NODATA_VALUE, 0, 4, 7}

\* the sequences over a set with at most n elements
SeqUpTo(S, n) == UNION {[1..k -> S] : k \in 0..n}

\* soil moisture timeseries: rows of (sm_surface, sm_rootzone) with dates in order
SoilRows ==
    {[i \in DOMAIN vs |-> [date |-> i, values |-> vs[i]]] :
        vs \in SeqUpTo({<<NODATA_VALUE, NODATA_VALUE>>, <<4, NODATA_VALUE>>,
                        <<0, 7>>, <<7, 4>>, <<4, 0>>}, MaxLen)}

\* the position of the variable the comparison looks at in a row's values:
\* precip_mm of (precip_mm), tavg_c of (tmin_c, tmax_c, tavg_c), sm_rootzone of
\* (sm_surface, sm_rootzone)
Datasets == {"chirps", "era5land", "smap"}
PrimaryField(dataset) ==
    IF dataset = "chirps" THEN 1 ELSE IF dataset = "era5land" THEN 3 ELSE 2

\* In a row handed to the comparison a value is None or Some(number):
\* d.get(field) of a row, None for a null
Get(row, dataset) == row.values[PrimaryField(dataset)]

\* [d.get(field) for d in data if d.get(field) is not None]
NotNone(data, dataset) ==
    LET present == SelectSeq(data, LAMBDA d : Get(d, dataset) # None)
    IN [i \in DOMAIN present |-> Get(present[i], dataset)[1]]

\* calculate_statistics: None, or the statistics of the period (floats in
\* hundredths).  np.median is the middle value or the mean of the two middle
\* values; np.std is the square root of std_squared, the population variance.
calculate_statistics(data, dataset) ==
    LET values == NotNone(data, dataset)
        n == Len(values)
        sorted == Sorted(values)
        squares == [i \in DOMAIN values |-> values[i] * values[i]]
    IN
    IF data = << >> THEN None
    ELSE IF values = << >> THEN None
    ELSE Some([mean |-> RoundDiv(100 * SumSeq(values), n),
               min |-> 100 * MinSeq(values),
               max |-> 100 * MaxSeq(values),
               median |-> IF n % 2 = 1 THEN 100 * sorted[(n \div 2) + 1]
                          ELSE 50 * (sorted[n \div 2] + sorted[(n \div 2) + 1]),
               std_squared |-> RoundDiv(100 * (n * SumSeq(squares)
                                                 - SumSeq(values) * SumSeq(values)),
                                        n * n),
               sum |-> 100 * SumSeq(values),
               num_days |-> n])

\* the rows of a period of a dataset: dates in order, the primary variable
\* null or a measurement, the other variables 1
PeriodRows(dataset) ==
    {[i \in DOMAIN vs |->
        [date |-> i,
         values |-> [k \in 1..PrimaryField(dataset) |->
                        IF k = PrimaryField(dataset) THEN vs[i] ELSE Some(1)]]] :
        vs \in SeqUpTo({None} \cup {Some(m) : m \in Measurements}, MaxLen)}

\* the rows of a period whose primary variable is not the sentinel
WithoutNodata(data, dataset) ==
    SelectSeq(data, LAMBDA d : Get(d, dataset) # Some(NODATA_VALUE))

\* a change expressed as a fraction of the first value instead of a percentage
percent_change_as_fraction(difference, value_1) ==
    IF value_1 # 0 THEN RoundQuot(difference * 100, value_1) ELSE 0

\* round((difference / value_1 * 100) if value_1 != 0 else 0, 2), in hundredths
\* of a percent; both arguments are in the same unit
percent_change(difference, value_1) ==
    IF value_1 # 0 THEN RoundQuot(difference * 10000, value_1) ELSE 0

\* a comparison that also accepts a percentage equal to c
PctBelow_inclusive(difference, value_1, c) ==
    IF value_1 > 0 THEN difference * 100 <= c * value_1
    ELSE IF value_1 < 0 THEN difference * 100 >= c * value_1
    ELSE 0 <= c

\* the unrounded percentage (difference / value_1 * 100, or 0) is below c
PctBelow(difference, value_1, c) ==
    IF value_1 > 0 THEN difference * 100 < c * value_1
    ELSE IF value_1 < 0 THEN difference * 100 > c * value_1
    ELSE 0 < c

\* the unrounded percentage is above c
PctAbove(difference, value_1, c) ==
    IF value_1 > 0 THEN difference * 100 > c * value_1
    ELSE IF value_1 < 0 THEN difference * 100 < c * value_1
    ELSE 0 > c

\* calculate_comparison: an error object, or the metrics of the two periods
\* (floats in hundredths); the interpretation text is left out
calculate_comparison(stats_1, stats_2, dataset) ==
    IF stats_1 = None \/ stats_2 = None
    THEN [error |-> "Cannot compare - missing data for one or both periods"]
    ELSE
      LET mean_diff == stats_2[1].mean - stats_1[1].mean
          base == stats_1[1].mean
          below(c) == PctBelow(mean_diff, base, c)
          above(c) == PctAbove(mean_diff, base, c)
          verdict ==
              IF dataset = "era5land"
              THEN IF above(10) THEN <<"Period 2 is much hotter", "severe">>
                   ELSE IF above(5) THEN <<"Period 2 is hotter", "moderate">>
                   ELSE IF below(-10) THEN <<"Period 2 is much cooler", "severe">>
                   ELSE IF below(-5) THEN <<"Period 2 is cooler", "moderate">>
                   ELSE <<"Periods are similar", "none">>
              ELSE IF below(-30) THEN <<"Period 2 is much drier", "severe">>
                   ELSE IF below(-15) THEN <<"Period 2 is drier", "moderate">>
                   ELSE IF above(30) THEN <<"Period 2 is much wetter", "high">>
                   ELSE IF above(15) THEN <<"Period 2 is wetter", "moderate">>
                   ELSE <<"Periods are similar", "none">>
      IN [error |-> "",
          mean_difference |-> mean_diff,
          mean_percent_change |-> percent_change(mean_diff, base),
          median_difference |-> stats_2[1].median - stats_1[1].median,
          sum_difference |-> stats_2[1].sum - stats_1[1].sum,
          status |-> verdict[1],
          severity |-> verdict[2],
          period_1_mean |-> stats_1[1].mean,
          period_2_mean |-> stats_2[1].mean]

\* the statistics handed to calculate_comparison: None, or those of a period
\* of two days with the given mean (in hundredths)
PeriodStats ==
    {None} \cup {Some([mean |-> m, median |-> m, sum |-> 2 * m, num_days |-> 2]) :
                    m \in {-300, 0, 300, 400, 700, 850, 1000, 1150, 1300}}

\* the positions of two periods where both primary values are present
BothPresent(data_1, data_2, dataset) ==
    LET min_length == IF Len(data_1) <= Len(data_2) THEN Len(data_1) ELSE Len(data_2)
    IN SelectSeq([i \in 1..min_length |-> i],
                 LAMBDA i : /\ Get(data_1[i], dataset) # None
                            /\ Get(data_2[i], dataset) # None)

\* one aligned entry: the day number and the records of both periods at position i
AlignedEntry(data_1, data_2, dataset, day, i) ==
    LET value_1 == Get(data_1[i], dataset)[1]
        value_2 == Get(data_2[i], dataset)[1]
    IN [day |-> day,
        date_1 |-> data_1[i].date,
        date_2 |-> data_2[i].date,
        value_1 |-> value_1,
        value_2 |-> value_2,
        difference |-> value_2 - value_1,
        percent_change |-> percent_change(value_2 - value_1, value_1),
        variable |-> PrimaryField(dataset)]

\* an alignment that numbers its entries by their place in the result
align_timeseries_renumbered(data_1, data_2, dataset) ==
    LET kept == BothPresent(data_1, data_2, dataset)
    IN [j \in DOMAIN kept |-> AlignedEntry(data_1, data_2, dataset, j, kept[j])]

\* align_timeseries: for i in range(min_length), an entry with day i + 1 when
\* both values are present
align_timeseries(data_1, data_2, dataset) ==
    LET kept == BothPresent(data_1, data_2, dataset)
    IN [j \in DOMAIN kept |-> AlignedEntry(data_1, data_2, dataset, kept[j], kept[j])]

\* the rows of a period handed to align_timeseries: dates from first on, step
\* apart, the primary variable null, 0 or 4, the other variables 1
AlignRows(dataset, first, step) ==
    {[i \in DOMAIN vs |->
        [date |-> first + step * (i - 1),
         values |-> [k \in 1..PrimaryField(dataset) |->
                        IF k = PrimaryField(dataset) THEN vs[i] ELSE Some(1)]]] :
        vs \in SeqUpTo({None, Some(0), Some(4)}, MaxLen)}

----------------------------------------------------------------------------
(* GeoTIFF export descriptors of the five extractors                       *)

MonthLimit == 60

\* a descriptor: its mode, its files (zip) and its time steps (multiband)
Descriptor(mode, num_files, num_steps) ==
    [exc |-> None,
     result |-> Some([mode |-> mode,
                      files |-> [i \in 1..num_files |-> [url |-> "url"]],
                      steps |-> num_steps])]

\* CHIRPSExtractor.export_geotiff
chirps_export_geotiff(num_days, export_mode, backend) ==
    IF backend.count = 0
    THEN [exc |-> Some(Exc("GEEError", "No CHIRPS data found")), result |-> None]
    ELSE IF export_mode = "multiband"
    THEN Descriptor("multiband", 0, Min(backend.count, BandLimit))
    ELSE Descriptor("zip", Min(backend.count, ZipLimit), 0)

\* ERA5LandExtractor.export_geotiff: one image per day of the range, built
\* without asking the collection
era5land_export_geotiff(num_days, export_mode, backend) ==
    LET daily_images == Min(num_days, BandLimit) IN
    IF daily_images = 0
    THEN [exc |-> Some(Exc("GEEError", "No ERA5-Land data found")), result |-> None]
    ELSE IF export_mode = "multiband"
    THEN Descriptor("multiband", 0, daily_images)
    ELSE Descriptor("zip", Min(daily_images, ZipLimit), 0)

\* SMAPExtractor.export_geotiff: backend.count daily images after aggregation
smap_export_geotiff(num_days, export_mode, backend) ==
    IF export_mode = "zip" /\ num_days > ZipLimit
    THEN [exc |-> Some(Exc("ValueError", "Zip export mode limited to 31 days maximum")), result |-> None]
    ELSE IF backend.count = 0
    THEN IF backend.empty_range_error
         THEN [exc |-> Some(Exc("EEException", "empty collection")), result |-> None]
         ELSE [exc |-> Some(Exc("ValueError", "No images found in collection")), result |-> None]
    ELSE IF export_mode = "multiband"
    THEN Descriptor("multiband", 0, backend.count)
    ELSE Descriptor("zip", backend.count, 0)

\* FLDASExtractor.export_geotiff and TerraClimateExtractor.export_geotiff
monthly_export_geotiff(num_days, export_mode, backend) ==
    IF backend.count = 0
    THEN [exc |-> Some(Exc("ValueError", "No data found for specified date range")), result |-> None]
    ELSE IF export_mode = "multiband"
    THEN Descriptor("multiband", 0, backend.count)
    ELSE Descriptor("zip", Min(backend.count, MonthLimit), 0)

\* extractor.export_geotiff(geometry, start_date, end_date, export_mode=...)
extractor_export_geotiff(extractor, num_days, export_mode, backend) ==
    IF extractor = "chirps" THEN chirps_export_geotiff(num_days, export_mode, backend)
    ELSE IF extractor = "era5land"
    THEN era5land_export_geotiff(num_days, export_mode, backend)
    ELSE IF extractor = "smap" THEN smap_export_geotiff(num_days, export_mode, backend)
    ELSE monthly_export_geotiff(num_days, export_mode, backend)

----------------------------------------------------------------------------
(* State machine                                                           *)

Did(op, job_id, ret, raised) ==
    [op |-> op, id |-> job_id, ret |-> ret, raised |-> raised]

Init ==
    /\ files = << >>
    /\ issued = {}
    /\ now = 0
    /\ cache = << >>
    /\ written = << >>
    /\ threads = [t \in Threads |-> Idle]
    /\ torn = {}
    /\ last = [op |-> "init", id |-> "", ret |-> [none |-> TRUE], raised |-> FALSE]

\* POST /api/data/chirps/geotiff
ChirpsGeotiff ==
    \E job_id \in JobIds \ issued, body \in {None} \cup {Some(r) : r \in Requests} :
        /\ Cardinality(issued) < MaxJobs
        /\ LET r == geotiff_route(files, "chirps_geotiff", body, job_id, now) IN
           /\ files' = r.store
           /\ issued' = IF r.code = 202 THEN issued \cup {job_id} ELSE issued
           /\ last' = Did("chirps_geotiff", job_id, [code |-> r.code], FALSE)
           /\ UNCHANGED <<now, cache, written, threads, torn>>

\* POST /api/data/era5land/geotiff
Era5landGeotiff ==
    \E job_id \in JobIds \ issued, body \in {None} \cup {Some(r) : r \in Requests} :
        /\ Cardinality(issued) < MaxJobs
        /\ LET r == geotiff_route(files, "era5_geotiff", body, job_id, now) IN
           /\ files' = r.store
           /\ issued' = IF r.code = 202 THEN issued \cup {job_id} ELSE issued
           /\ last' = Did("era5land_geotiff", job_id, [code |-> r.code], FALSE)
           /\ UNCHANGED <<now, cache, written, threads, torn>>

\* GET /api/data/jobs/<job_id>/status
JobStatusRoute ==
    \E job_id \in JobIds :
        /\ last' = Did("job_status", job_id, job_status(files, job_id), FALSE)
        /\ UNCHANGED <<files, issued, now, cache, written, threads, torn>>

\* GET /api/data/jobs/<job_id>/download?format=<format_type>
JobDownloadRoute ==
    \E job_id \in JobIds, format_type \in {"tif", "zip"} :
        /\ last' = Did("job_download", job_id,
                       job_download(files, job_id, format_type), FALSE)
        /\ UNCHANGED <<files, issued, now, cache, written, threads, torn>>

\* JobStore.create_job called directly, while fewer than limit jobs were created
CreateJob(types, requests, users, limit) ==
    \E job_id \in JobIds \ issued, job_type \in types, request_data \in requests,
       user_id \in users :
        /\ Cardinality(issued) < limit
        /\ files' = create_job(files, job_id, job_type, request_data, user_id, now)
        /\ issued' = issued \cup {job_id}
        /\ last' = Did("create_job", job_id, [job_id |-> job_id], FALSE)
        /\ UNCHANGED <<now, cache, written, threads, torn>>

MarkRunning ==
    \E job_id \in JobIds :
        LET r == mark_running(files, job_id, now) IN
        /\ files' = r.store
        /\ last' = Did("mark_running", job_id, [ok |-> r.ret], FALSE)
        /\ UNCHANGED <<issued, now, cache, written, threads, torn>>

MarkDone ==
    \E job_id \in JobIds :
        LET r == mark_done(files, job_id, [tif |-> Some("url")], now) IN
        /\ files' = r.store
        /\ last' = Did("mark_done", job_id, [ok |-> r.ret], FALSE)
        /\ UNCHANGED <<issued, now, cache, written, threads, torn>>

MarkError ==
    \E job_id \in JobIds :
        LET r == mark_error(files, job_id, "boom", now) IN
        /\ files' = r.store
        /\ last' = Did("mark_error", job_id, [ok |-> r.ret], FALSE)
        /\ UNCHANGED <<issued, now, cache, written, threads, torn>>

\* one run of JobExecutor.execute_geotiff_job; ret tells how far the try block
\* came: no job found, the export returned, or a step raised
ExecuteGeotiffJob(backends) ==
    \E job_id \in JobIds, backend \in backends :
        LET r == execute_geotiff_job(files, job_id, backend, now)
            step == IF get_job(files, job_id) = None THEN "no job"
                    ELSE IF run_export(files[job_id], backend).exc = None
                    THEN "exported" ELSE "step raised"
        IN
        /\ files' = r.store
        /\ last' = Did("execute_geotiff_job", job_id, [step |-> step], r.raised # None)
        /\ UNCHANGED <<issued, now, cache, written, threads, torn>>

\* JobStore.get_job called directly
GetJob ==
    \E job_id \in JobIds :
        /\ last' = Did("get_job", job_id,
                       [job |-> get_job_from_disk(files, torn, job_id)], FALSE)
        /\ UNCHANGED <<files, issued, now, cache, written, threads, torn>>

\* update_job, first step: job_data = self.get_job(job_id), return False when
\* there is none, else the assignments to the local job_data. The calls that
\* run at the same time set the status, the progress, or the status and error
UpdateJobBegin(t) ==
    /\ threads[t].pc = "idle"
    /\ \E job_id \in issued,
          a \in {[Idle.args EXCEPT !.status = Some(DONE)],
                 [Idle.args EXCEPT !.progress = Some(50)],
                 [Idle.args EXCEPT !.status = Some(ERROR), !.error = Some("boom")]} :
          LET got == get_job_from_disk(files, torn, job_id) IN
          IF got = None
          THEN /\ threads' = [threads EXCEPT ![t] =
                                 [Idle EXCEPT !.pc = "returned", !.job_id = job_id,
                                              !.args = a]]
               /\ last' = Did("update_job", job_id, [ok |-> FALSE], FALSE)
          ELSE /\ threads' = [threads EXCEPT ![t] =
                                 [Idle EXCEPT !.pc = "loaded", !.job_id = job_id,
                                              !.args = a,
                                              !.job_data =
                                                  Some(update_fields(got[1], a.status,
                                                           a.progress, a.error,
                                                           a.download_urls, now))]]
               /\ UNCHANGED last
    /\ UNCHANGED <<files, issued, now, cache, written, torn>>

\* _save_job, first step: open(job_file, 'w') empties the file
UpdateJobOpen(t) ==
    /\ threads[t].pc = "loaded"
    /\ threads' = [threads EXCEPT ![t].pc = "opened"]
    /\ torn' = torn \cup {threads[t].job_id}
    /\ UNCHANGED <<files, issued, now, cache, written, last>>

\* _save_job, second step: json.dump and close, then update_job returns True.
\* The text is written from the start of the file: when another thread wrote
\* its text since this one opened the file, a longer text keeps its tail and
\* the file is no longer JSON.
UpdateJobDump(t) ==
    LET job_id == threads[t].job_id
        Finished == [u \in Threads |->
                        IF u = t THEN [threads[u] EXCEPT !.pc = "returned", !.ret = TRUE]
                        ELSE IF threads[u].pc = "opened" /\ threads[u].job_id = job_id
                        THEN [threads[u] EXCEPT !.overlaid = TRUE]
                        ELSE threads[u]]
    IN
    /\ threads[t].pc = "opened"
    /\ threads' = Finished
    /\ \/ /\ files' = _save_job(files, job_id, threads[t].job_data[1])
          /\ torn' = torn \ {job_id}
       \/ /\ threads[t].overlaid
          /\ files' = files
          /\ torn' = torn \cup {job_id}
    /\ last' = Did("update_job", job_id, [ok |-> TRUE], FALSE)
    /\ UNCHANGED <<issued, now, cache, written>>

\* the keyword arguments of one update_job call
UpdateArgs ==
    [status : {None, Some(DONE)},
     progress : {None, Some(-5), Some(50), Some(150)},
     error : {None, Some("boom")},
     download_urls : {None, Some([tif |-> Some("url")])}]

\* one call update_job(job_id, **a)
UpdateJobCall(job_id, a) ==
    LET r == update_job(files, job_id, a.status, a.progress, a.error,
                        a.download_urls, now)
    IN
    /\ files' = r.store
    /\ last' = Did("update_job", job_id, [ok |-> r.ret], FALSE)
    /\ UNCHANGED <<issued, now, cache, written, threads, torn>>

\* JobStore.update_job called directly, with arguments from args
UpdateJob(args) ==
    \E job_id \in JobIds, a \in args : UpdateJobCall(job_id, a)

\* one call cleanup_old_jobs(days)
CleanupCall(days) ==
    /\ files' = cleanup_old_jobs(files, days, now)
    /\ last' = Did("cleanup_old_jobs", "", [days |-> days], FALSE)
    /\ UNCHANGED <<issued, now, cache, written, threads, torn>>

\* JobStore.cleanup_old_jobs
CleanupOldJobs ==
    \E days \in 0..MaxDays : CleanupCall(days)

\* time passes
Tick ==
    /\ now < MaxTime
    /\ now' = now + 1
    /\ UNCHANGED <<files, issued, cache, written, threads, torn, last>>

\* the history after a set(request_data, data, format) at the current time
Recorded(request_data, data, format) ==
    LET k == <<AsDict(request_data), format>> IN
    [d \in (DOMAIN written) \cup {k} |->
        IF d = k THEN [value |-> data, at |-> now] ELSE written[d]]

\* RequestCache.set(request_data, data, format) for a json or unknown format
CacheSetIO(params, values, formats, faults) ==
    \E request_data \in params, data \in values, format \in formats, fault \in faults :
        LET r == cache_set_io(cache, request_data, data, format, now, fault) IN
        /\ cache' = r.dir
        /\ written' = IF format = "json" THEN Recorded(request_data, data, format)
                      ELSE written
        /\ last' = Did("cache_set", "", [p |-> request_data, format |-> format,
                                         fault |-> fault, set_ok |-> r.ok], r.raised)
        /\ UNCHANGED <<files, issued, now, threads, torn>>

\* RequestCache.set(request_data, data, "json") with nothing going wrong outside
CacheSet(params, values) == CacheSetIO(params, values, {"json"}, {NoFault})

\* the files handed to set(.., "csv"): written at some time up to now
SourceFiles == [text : {<<"a,b">>}, mtime : 0..now]

\* RequestCache.set(request_data, path, "csv")
CacheSetFileIO(params, faults) ==
    \E request_data \in params, source \in SourceFiles, fault \in faults :
        LET r == cache_set_io(cache, request_data, source, "csv", now, fault) IN
        /\ cache' = r.dir
        /\ written' = Recorded(request_data, Scalar("path"), "csv")
        /\ last' = Did("cache_set", "", [p |-> request_data, format |-> "csv",
                                         fault |-> fault, set_ok |-> r.ok], r.raised)
        /\ UNCHANGED <<files, issued, now, threads, torn>>

\* RequestCache.set(request_data, path, "csv") with nothing going wrong outside
CacheSetFile(params) == CacheSetFileIO(params, {NoFault})

\* one call RequestCache.get(request_data, format)
CacheGetCallIO(request_data, format, fault) ==
    LET r == cache_get_io(cache, request_data, format, now, fault) IN
    /\ cache' = r.dir
    /\ last' = Did("cache_get", "", [p |-> request_data, format |-> format,
                                     fault |-> fault, value |-> r.ret], r.raised)
    /\ UNCHANGED <<files, issued, now, written, threads, torn>>

\* one call RequestCache.get(request_data, format), nothing going wrong outside
CacheGetCall(request_data, format) == CacheGetCallIO(request_data, format, NoFault)

\* RequestCache.get(request_data, format)
CacheGetIO(params, faults) ==
    \E request_data \in params, format \in {"json", "csv", "xml"}, fault \in faults :
        CacheGetCallIO(request_data, format, fault)

\* RequestCache.get(request_data, format) with nothing going wrong outside
CacheGet == CacheGetIO(Params, {NoFault})

\* RequestCache.clear_expired
ClearExpired ==
    /\ cache' = clear_expired(cache, now)
    /\ last' = Did("clear_expired", "", [none |-> TRUE], FALSE)
    /\ UNCHANGED <<files, issued, now, written, threads, torn>>

\* time passes for the cache
CacheTick ==
    /\ now < MaxCacheTime
    /\ now' = now + 1
    /\ UNCHANGED <<files, issued, cache, written, threads, torn, last>>

\* A call that has arrived and is about to be served
Arrived(op, args) == Did(op, "", args, FALSE)

\* the timeseries requests, extractor calls and validations that can arrive
TimeseriesCalls ==
    \/ \E ds \in {"chirps", "era5land", "smap"}, body \in TsBodies, backend \in TsBackends :
          last = Arrived("POST timeseries",
                         [dataset |-> ds, body |-> body, backend |-> backend])
    \/ \E ds \in {"chirps", "era5land", "smap"}, a \in Dates, b \in Dates,
          backend \in TsBackends :
          last = Arrived("call get_timeseries",
                         [dataset |-> ds, start |-> a, end |-> b, backend |-> backend])
    \/ \E a \in Dates, b \in Dates, m \in 0..(MaxDate + 1) :
          last = Arrived("call validate_date_range",
                         [start |-> a, end |-> b, max_days |-> m])

\* POST /api/data/<dataset>/timeseries
TimeseriesRoute(dataset) ==
    /\ last.op = "POST timeseries"
    /\ last.ret.dataset = dataset
    /\ LET r == timeseries_route(dataset, last.ret.body, last.ret.backend) IN
       last' = Did("timeseries", "", [dataset |-> dataset, body |-> last.ret.body,
                                      backend |-> last.ret.backend, code |-> r.code,
                                      data |-> r.data, calls |-> r.calls,
                                      max_days |-> r.max_days], FALSE)
    /\ UNCHANGED <<files, issued, now, cache, written, threads, torn>>

\* the dates of the requests that reach the limit of the routes
LongDates == 0..(RouteMaxDays + 3)


ChirpsTimeseries == TimeseriesRoute("chirps")
Era5landTimeseries == TimeseriesRoute("era5land")
SmapTimeseries == TimeseriesRoute("smap")

\* extractor.get_timeseries called directly
GetTimeseries ==
    /\ last.op = "call get_timeseries"
    /\ LET a == last.ret
           r == IF a.dataset = "chirps"
                THEN chirps_get_timeseries(a.start, a.end, a.backend)
                ELSE IF a.dataset = "era5land"
                THEN era5_get_timeseries(a.start, a.end, a.backend)
                ELSE smap_get_timeseries(a.start, a.end, a.backend)
       IN last' = Did("get_timeseries", "",
                      [dataset |-> a.dataset, start |-> a.start, end |-> a.end,
                       backend |-> a.backend, data |-> r.data], r.exc # None)
    /\ UNCHANGED <<files, issued, now, cache, written, threads, torn>>

\* validate_date_range(start, end, max_days) and DateRangeInput(start, end)
ValidateDateRange ==
    /\ last.op = "call validate_date_range"
    /\ LET a == last.ret IN
       last' = Did("validate_date_range", "",
                   [start |-> a.start, end |-> a.end, max_days |-> a.max_days,
                    order_error |-> validate_date_order(a.start, a.end) # None],
                   validate_date_range(a.start, a.end, a.max_days) # None)
    /\ UNCHANGED <<files, issued, now, cache, written, threads, torn>>

\* the calls of the statistics functions that can arrive
StatisticsCalls ==
    \/ \E ts \in SoilRows :
          last = Arrived("call get_statistics", [timeseries |-> ts])
    \/ \E ds \in Datasets : \E data \in PeriodRows(ds) :
          last = Arrived("call calculate_statistics", [data |-> data, dataset |-> ds])
    \/ \E s1 \in PeriodStats, s2 \in PeriodStats, ds \in Datasets :
          last = Arrived("call calculate_comparison",
                         [stats_1 |-> s1, stats_2 |-> s2, dataset |-> ds])
    \/ \E ds \in Datasets : \E d1 \in AlignRows(ds, 1, 1), d2 \in AlignRows(ds, 11, 2) :
          last = Arrived("call align_timeseries",
                         [data_1 |-> d1, data_2 |-> d2, dataset |-> ds])

\* SMAPExtractor.get_statistics
GetStatistics ==
    /\ last.op = "call get_statistics"
    /\ LET r == smap_get_statistics(last.ret.timeseries) IN
       last' = Did("get_statistics", "",
                   [timeseries |-> last.ret.timeseries, stats |-> r.stats,
                    error |-> IF r.exc = None THEN "" ELSE r.exc[1].msg],
                   r.exc # None)
    /\ UNCHANGED <<files, issued, now, cache, written, threads, torn>>

\* calculate_statistics(data, dataset)
CalculateStatistics ==
    /\ last.op = "call calculate_statistics"
    /\ last' = Did("calculate_statistics", "",
                   [data |-> last.ret.data, dataset |-> last.ret.dataset,
                    stats |-> calculate_statistics(last.ret.data, last.ret.dataset)],
                   FALSE)
    /\ UNCHANGED <<files, issued, now, cache, written, threads, torn>>

\* calculate_comparison(stats_1, stats_2, dataset)
CalculateComparison ==
    /\ last.op = "call calculate_comparison"
    /\ LET a == last.ret IN
       last' = Did("calculate_comparison", "",
                   [stats_1 |-> a.stats_1, stats_2 |-> a.stats_2, dataset |-> a.dataset,
                    comparison |-> calculate_comparison(a.stats_1, a.stats_2, a.dataset)],
                   FALSE)
    /\ UNCHANGED <<files, issued, now, cache, written, threads, torn>>

\* align_timeseries(data_1, data_2, dataset)
AlignTimeseries ==
    /\ last.op = "call align_timeseries"
    /\ LET a == last.ret IN
       last' = Did("align_timeseries", "",
                   [data_1 |-> a.data_1, data_2 |-> a.data_2, dataset |-> a.dataset,
                    aligned |-> align_timeseries(a.data_1, a.data_2, a.dataset)],
                   FALSE)
    /\ UNCHANGED <<files, issued, now, cache, written, threads, torn>>

\* extractor.export_geotiff(...)
ExportGeotiff ==
    /\ last.op = "call export_geotiff"
    /\ LET a == last.ret
           r == extractor_export_geotiff(a.extractor, a.num_days, a.export_mode, a.backend)
       IN last' = Did("export_geotiff", "",
                      [extractor |-> a.extractor, num_days |-> a.num_days,
                       export_mode |-> a.export_mode, backend |-> a.backend,
                       result |-> r.result],
                      r.exc # None)
    /\ UNCHANGED <<files, issued, now, cache, written, threads, torn>>

Routes == ChirpsGeotiff \/ Era5landGeotiff \/ JobStatusRoute \/ JobDownloadRoute

\* The job lifecycle: the routes, the executor and the transitions of the store
Next ==
    \/ ChirpsGeotiff
    \/ Era5landGeotiff
    \/ JobStatusRoute
    \/ JobDownloadRoute
    \/ CreateJob(JobTypes, {ReqDefault}, {None}, MaxJobs)
    \/ MarkRunning
    \/ MarkDone
    \/ MarkError
    \/ ExecuteGeotiffJob(Backends)

Spec == Init /\ [][Next]_vars

\* Every request that arrives is served
LiveSpec == Spec /\ WF_vars(Routes)

\* update_job under arbitrary arguments
UpdateNext ==
    \/ CreateJob({"chirps_geotiff"}, {ReqDefault}, {Some("u1")}, Cardinality(JobIds))
    \/ UpdateJob(UpdateArgs)
    \/ Tick

UpdateSpec == Init /\ [][UpdateNext]_vars

\* The store over time: creation, reads, transitions and the sweep
SweepNext ==
    \/ CreateJob({"chirps_geotiff"}, {ReqDefault}, {Some("u1")}, Cardinality(JobIds))
    \/ GetJob
    \/ JobStatusRoute
    \/ UpdateJob({[status |-> None, progress |-> Some(50), error |-> None,
                   download_urls |-> None]})
    \/ MarkRunning
    \/ MarkDone
    \/ MarkError
    \/ ExecuteGeotiffJob({[fails |-> FALSE, count |-> 1]})
    \/ CleanupOldJobs
    \/ Tick

SweepSpec == Init /\ [][SweepNext]_vars

\* update_job calls and reads of one store at the same time
RaceNext ==
    \/ CreateJob({"chirps_geotiff"}, {ReqDefault}, {Some("u1")}, MaxJobs)
    \/ \E t \in Threads : UpdateJobBegin(t)
    \/ \E t \in Threads : UpdateJobOpen(t)
    \/ \E t \in Threads : UpdateJobDump(t)
    \/ GetJob

RaceSpec == Init /\ [][RaceNext]_vars

\* The request cache
CacheNext ==
    \/ CacheSet(Params, PyValues)
    \/ CacheGet
    \/ ClearExpired
    \/ CacheTick

CacheSpec == Init /\ [][CacheNext]_vars

\* The request cache holding json and csv artifacts
ExpiryNext ==
    \/ CacheSet({P1}, {Scalar("1")})
    \/ CacheSetFile({P1, P2})
    \/ CacheGet
    \/ ClearExpired
    \/ CacheTick

ExpirySpec == Init /\ [][ExpiryNext]_vars

\* The request cache on a file system that can fail
FaultNext ==
    \/ CacheSetIO({P1}, {List(<<"1", "null">>), Object}, {"json", "xml"},
                  {NoFault, "key", "open", "write"})
    \/ CacheSetFileIO({P1}, {NoFault, "copy"})
    \/ CacheGetIO({P1}, GetFaults)
    \/ CacheTick

FaultSpec == Init /\ [][FaultNext]_vars

\* The timeseries endpoints, the extractors and the date validation
TimeseriesNext ==
    \/ ChirpsTimeseries
    \/ Era5landTimeseries
    \/ SmapTimeseries
    \/ GetTimeseries
    \/ ValidateDateRange

\* empty stores and one call that has arrived
TimeseriesInit ==
    /\ files = << >>
    /\ issued = {}
    /\ now = 0
    /\ cache = << >>
    /\ written = << >>
    /\ threads = [t \in Threads |-> Idle]
    /\ torn = {}
    /\ TimeseriesCalls

TimeseriesSpec == TimeseriesInit /\ [][TimeseriesNext]_vars

\* The statistics of a timeseries and the comparison of two periods
StatisticsNext ==
    \/ GetStatistics
    \/ CalculateStatistics
    \/ CalculateComparison
    \/ AlignTimeseries

\* empty stores and one call that has arrived
StatisticsInit ==
    /\ files = << >>
    /\ issued = {}
    /\ now = 0
    /\ cache = << >>
    /\ written = << >>
    /\ threads = [t \in Threads |-> Idle]
    /\ torn = {}
    /\ StatisticsCalls

StatisticsSpec == StatisticsInit /\ [][StatisticsNext]_vars

\* The ERA5-Land and SMAP endpoints with ranges around their limit
LimitNext ==
    \/ Era5landTimeseries
    \/ SmapTimeseries

LimitInit ==
    /\ files = << >>
    /\ issued = {}
    /\ now = 0
    /\ cache = << >>
    /\ written = << >>
    /\ threads = [t \in Threads |-> Idle]
    /\ torn = {}
    \* the ERA5-Land and SMAP requests with ranges of up to RouteMaxDays + 4
    \* days, on backends that treat every day alike
    /\ \E ds \in {"era5land", "smap"}, a \in LongDates, b \in LongDates,
          s \in {"value", "fails"}, e \in BOOLEAN :
          last = Arrived("POST timeseries",
                         [dataset |-> ds,
                          body |-> Some([geometry |-> [type |-> "point", lat |-> -17,
                                                       lon |-> 31],
                                         start |-> a, end |-> b]),
                          backend |-> [day |-> [d \in LongDates |-> s],
                                       empty_range_error |-> e]])

LimitSpec == LimitInit /\ [][LimitNext]_vars

\* The export descriptors of the extractors
ExportNext == ExportGeotiff

ExportInit ==
    /\ files = << >>
    /\ issued = {}
    /\ now = 0
    /\ cache = << >>
    /\ written = << >>
    /\ threads = [t \in Threads |-> Idle]
    /\ torn = {}
    \* the export calls that can arrive: the span of the range (end - start + 1
    \* in days, 0 when the end is the day before the start), the mode, and what
    \* Earth Engine answers: the images it holds for the range, and whether
    \* aggregating an empty collection is an error of its own.
    \* filterDate(start, end) leaves out the end day: a daily collection holds
    \* at most span - 1 images, a monthly one at most one per 28 days and one more
    /\ \E x \in {"chirps", "era5land", "smap", "fldas", "terraclimate"},
          d \in {0, 1, 31, 32, 366, 367, 368, 2000},
          m \in {"multiband", "zip"},
          c \in {0, 1, 30, 31, 32, 60, 61, 366, 367},
          e \in BOOLEAN :
          /\ IF x \in {"chirps", "era5land", "smap"}
             THEN c <= Max(d - 1, 0)
             ELSE c <= d \div 28 + 1
          /\ last = Arrived("call export_geotiff",
                            [extractor |-> x, num_days |-> d, export_mode |-> m,
                             backend |-> [count |-> c, empty_range_error |-> e]])

ExportSpec == ExportInit /\ [][ExportNext]_vars

----------------------------------------------------------------------------
(* Properties                                                              *)

Terminal == {DONE, ERROR}

Exists(job_id) == job_id \in DOMAIN files

\* C1: once a job's persisted status is done or error, no operation on that
\* job changes its status to another value.
C1_TerminalFinal ==
    [][\A id \in JobIds :
          (Exists(id) /\ files[id].status \in Terminal /\ id \in DOMAIN files')
              => files'[id].status = files[id].status]_vars

\* C2: once a job's status is not queued, no step of the lifecycle (the routes,
\* mark_running, mark_done, mark_error, the executor) writes queued to it again.
C2_NeverRequeued ==
    [][\A id \in JobIds :
          (Exists(id) /\ files[id].status # QUEUED)
              => (id \in DOMAIN files' /\ files'[id].status # QUEUED)]_vars

\* a job that failed earlier (its error is set) was executed again and is done
C2_Witness ==
    /\ last.op = "execute_geotiff_job"
    /\ Exists(last.id)
    /\ files[last.id].error # None
    /\ files[last.id].status = DONE

\* C3: every job created through a GeoTIFF export endpoint eventually reaches
\* status done or error.
C3_EventuallyTerminal ==
    \A id \in JobIds :
        (last.op \in {"chirps_geotiff", "era5land_geotiff"} /\ last.id = id /\ last.ret.code = 202)
            ~> (Exists(id) /\ files[id].status \in Terminal)

\* C4: after a run of execute_geotiff_job on an existing job whose export
\* returned, the job has status done, progress 100 and download_urls set.
C4_ExportedIsDone ==
    (last.op = "execute_geotiff_job" /\ last.ret.step = "exported")
        => /\ Exists(last.id)
           /\ files[last.id].status = DONE
           /\ files[last.id].progress = 100
           /\ files[last.id].download_urls # None

\* a zip-mode export has returned
C4_Witness ==
    /\ last.op = "execute_geotiff_job"
    /\ last.ret.step = "exported"
    /\ files[last.id].request_data.tiff_mode = Some("zip")

\* C5: after a run of execute_geotiff_job in which a step raised, the job has
\* status error and an error message, and no exception left the function.
C5_FailureCaptured ==
    (last.op = "execute_geotiff_job" /\ last.ret.step = "step raised")
        => /\ ~last.raised
           /\ Exists(last.id)
           /\ files[last.id].status = ERROR
           /\ files[last.id].error # None

\* a job of unknown type was executed
C5_Witness ==
    /\ last.op = "execute_geotiff_job"
    /\ last.ret.step = "step raised"
    /\ files[last.id].job_type = "smap_geotiff"

\* C8: the download route answers 404 when the job has no record, 400 when its
\* status is not done, and redirects only to the tif URL of a done job.
C8_Download ==
    last.op = "job_download"
        => /\ ~Exists(last.id) => last.ret.code = 404
           /\ (Exists(last.id) /\ files[last.id].status # DONE) => last.ret.code = 400
           /\ last.ret.code = 302
                => /\ Exists(last.id)
                   /\ files[last.id].status = DONE
                   /\ files[last.id].download_urls # None
                   /\ files[last.id].download_urls[1].tif # None
                   /\ last.ret.location = files[last.id].download_urls[1].tif

\* the route has redirected
C8_Witness ==
    /\ last.op = "job_download"
    /\ last.ret.code = 302

\* C6: create_job returns an identifier never returned before, stores under it
\* a record with status queued, progress 0, no error and no download_urls,
\* changes no other record, and get_job and the status route then find the
\* record; an identifier never returned has no record (None, 404).
C6_CreateJob ==
    /\ [](\A id \in JobIds \ issued :
            get_job(files, id) = None /\ job_status(files, id).code = 404)
    /\ [][issued' # issued =>
            \E id \in issued' \ issued :
                /\ issued' = issued \cup {id}
                /\ last'.op = "create_job" /\ last'.ret.job_id = id
                /\ DOMAIN files' = DOMAIN files \cup {id}
                /\ \A j \in DOMAIN files : files'[j] = files[j]
                /\ files'[id].job_id = id
                /\ files'[id].status = QUEUED
                /\ files'[id].progress = 0
                /\ files'[id].error = None
                /\ files'[id].download_urls = None
                /\ get_job(files', id) = Some(files'[id])
                /\ job_status(files', id).code = 200]_vars

\* a second job was created while the first one, already running, has its record
C6_Witness ==
    /\ last.op = "create_job"
    /\ Cardinality(issued) = 2
    /\ \E j \in DOMAIN files : j # last.id /\ files[j].status = RUNNING
    /\ files[last.id].status = QUEUED

Clamped(p) == IF p < 0 THEN 0 ELSE IF p > 100 THEN 100 ELSE p

\* C7: in every reachable store and for every argument list, update_job on an
\* existing job sets exactly the supplied fields among status, progress
\* (clamped to 0..100), error and download_urls, refreshes updated_at and
\* leaves every other field and every other record as it was; on an id with
\* no record it returns False and changes nothing.
C7_PartialMerge ==
    \A id \in JobIds, a \in UpdateArgs :
        LET r == update_job(files, id, a.status, a.progress, a.error,
                            a.download_urls, now)
            new == r.store
        IN
        IF ~Exists(id)
        THEN r.ret = FALSE /\ new = files
        ELSE /\ r.ret = TRUE
             /\ DOMAIN new = DOMAIN files
             /\ \A j \in DOMAIN files \ {id} : new[j] = files[j]
             /\ new[id].status =
                    IF a.status = None THEN files[id].status ELSE a.status[1]
             /\ new[id].progress =
                    IF a.progress = None THEN files[id].progress
                    ELSE Clamped(a.progress[1])
             /\ new[id].error =
                    IF a.error = None THEN files[id].error ELSE a.error
             /\ new[id].download_urls =
                    IF a.download_urls = None THEN files[id].download_urls
                    ELSE a.download_urls
             /\ new[id].updated_at = now
             /\ new[id].job_id = files[id].job_id
             /\ new[id].job_type = files[id].job_type
             /\ new[id].request_data = files[id].request_data
             /\ new[id].user_id = files[id].user_id
             /\ new[id].created_at = files[id].created_at

\* an update that supplied an out-of-range progress on a job whose error was
\* set earlier, at a later time than its creation, next to a second record
C7_Witness ==
    /\ last.op = "update_job"
    /\ last.ret.ok
    /\ Cardinality(DOMAIN files) = 2
    /\ files[last.id].progress = 100
    /\ files[last.id].status = QUEUED
    /\ files[last.id].error # None
    /\ files[last.id].updated_at > files[last.id].created_at

\* C9: a record disappears only in a cleanup_old_jobs(days) step and only if
\* its created_at is before now - days; the sweep removes exactly those
\* records and leaves the others as they were.
C9_OnlySweepDeletes ==
    [][/\ \A id \in JobIds :
            (get_job(files, id) # None /\ get_job(files', id) = None)
                => /\ last'.op = "cleanup_old_jobs"
                   /\ files[id].created_at < now - last'.ret.days
       /\ \A days \in 0..MaxDays :
            CleanupCall(days)
                => /\ DOMAIN files' =
                        {id \in DOMAIN files : ~(files[id].created_at < now - days)}
                   /\ \A id \in DOMAIN files' : files'[id] = files[id]]_vars

\* a sweep removed one of two records and kept the younger one
C9_Witness ==
    /\ last.op = "cleanup_old_jobs"
    /\ Cardinality(issued) = 2
    /\ Cardinality(DOMAIN files) = 1
    /\ \E id \in DOMAIN files : ~(files[id].created_at < now - last.ret.days)

C11_LazyExpiry ==
    [][\A p \in Params, format \in {"json", "csv"} :
        LET k == <<AsDict(p), format>>
            f == cache_file(_compute_cache_key(p), format)[1]
        IN
        /\ (CacheGetCall(p, format) /\ f \in DOMAIN cache
              /\ now - written[k].at > Ttl)
             => (last'.ret.value = PyNone /\ f \notin DOMAIN cache')
        /\ (CacheGetCall(p, format) /\ f \notin DOMAIN cache)
             => (last'.ret.value = PyNone /\ cache' = cache)
        /\ (f \notin DOMAIN cache /\ f \in DOMAIN cache')
             => (last'.op = "cache_set" /\ AsDict(last'.ret.p) = AsDict(p)
                   /\ last'.ret.format = format)
        /\ (CacheGetCall(p, format) /\ f \in DOMAIN cache
              /\ now - written[k].at <= Ttl)
             => f \in DOMAIN cache'
      ]_vars

\* C12: no call of get or set lets an exception out, whatever goes wrong on the
\* file system; a get that meets a failure, a corrupt or half-written file or
\* an unknown format returns None, and a set that meets a failure, a value json
\* cannot dump or an unknown format returns the empty string.
C12_CacheNeverRaises ==
    LET r == last.ret
        Known == {"json", "csv", "tiff"}
    IN
    /\ last.op \in {"cache_get", "cache_set"} => ~last.raised
    /\ last.op = "cache_get" =>
         /\ (r.format \notin Known \/ r.fault = "key") => r.value = PyNone
         /\ (r.format = "json" /\ r.fault = "read") => r.value = PyNone
         /\ LET f == <<_compute_cache_key(r.p), ".json">> IN
            (r.format = "json" /\ f \in DOMAIN cache
               /\ JsonLoad(cache[f].text) = None) => r.value = PyNone
    /\ last.op = "cache_set" =>
         /\ (r.format \notin Known \/ r.fault # NoFault) => ~r.set_ok
         /\ (r.format = "json" /\ JsonDump(written[<<AsDict(r.p), "json">>].value) = None)
               => ~r.set_ok

\* a get that found a half-written file, still within the ttl, and returned None
C12_Witness ==
    LET f == <<_compute_cache_key(P1), ".json">> IN
    /\ last.op = "cache_get"
    /\ last.ret.format = "json"
    /\ last.ret.fault = NoFault
    /\ last.ret.p = P1
    /\ f \in DOMAIN cache
    /\ cache[f].text = <<"[", "1", "null">>
    /\ now - cache[f].mtime <= Ttl
    /\ last.ret.value = PyNone
    /\ ~last.raised

\* C13: on every timeseries endpoint a request whose end date lies before its
\* start date is answered with 400, and no request is sent to Earth Engine.
C13_EndBeforeStart ==
    (last.op = "timeseries" /\ last.ret.body # None)
        => LET b == last.ret.body[1] IN
           (b.geometry.type = "point" /\ b.end < b.start)
               => (last.ret.code = 400 /\ last.ret.calls = 0)

\* C14: validate_date_range raises exactly when end - start + 1 > maxDays or
\* end < start, and DateRangeInput's validator raises exactly when end < start.
C14_ValidateDateRange ==
    last.op = "validate_date_range"
        => LET r == last.ret
               span == (r.end - r.start) + 1
           IN
           /\ last.raised <=> (span > r.max_days \/ r.end < r.start)
           /\ r.order_error <=> r.end < r.start

\* a range of MaxDate + 1 days accepted with max_days = MaxDate + 1
C14_Witness ==
    /\ last.op = "validate_date_range"
    /\ last.ret.start = 0
    /\ last.ret.end = MaxDate
    /\ last.ret.max_days = MaxDate + 1
    /\ ~last.raised
    /\ ~last.ret.order_error

\* the range of a get_timeseries call is valid for its dataset
ValidRange(a) ==
    a.start <= a.end /\ (a.dataset = "smap" => a.start >= SmapStart)

\* C15: for every valid range each extractor's get_timeseries returns one row
\* per calendar day from start to end, in ascending order without duplicates,
\* whatever Earth Engine holds or answers for the single days.
C15_OneRowPerDay ==
    (last.op = "get_timeseries" /\ ValidRange(last.ret))
        => LET a == last.ret IN
           /\ ~last.raised
           /\ Len(a.data) = (a.end - a.start) + 1
           /\ \A i \in DOMAIN a.data : a.data[i].date = a.start + i - 1

\* C16: in get_timeseries of ERA5-Land and of SMAP a day whose request fails
\* becomes a row of NODATA values, the other days are processed and the call
\* returns instead of failing.
C16_DayFailureIsNodataRow ==
    (last.op = "get_timeseries" /\ last.ret.dataset \in {"era5land", "smap"}
       /\ ValidRange(last.ret))
        => LET a == last.ret IN
           \A d \in a.start..a.end :
              a.backend.day[d] = "fails"
                 => /\ ~last.raised
                    /\ \E i \in DOMAIN a.data :
                          /\ a.data[i].date = d
                          /\ \A k \in DOMAIN a.data[i].values :
                                a.data[i].values[k] = NODATA_VALUE

\* C17: get_statistics computes mean, min, max, median (the middle element of
\* the sorted values, the upper one of two) and count of each variable over
\* exactly the values that are not -999, and raises 'No valid data points found'
\* when a variable has no such value; it never returns statistics of no values.
C17_StatisticsOverValid ==
    last.op = "get_statistics"
        => LET ts == last.ret.timeseries
               Kept(k) == {i \in DOMAIN ts : ts[i].values[k] # NODATA_VALUE}
               Val(k, i) == ts[i].values[k]
               Sum(k) == SumSeq(Valid(Column(ts, k)))
               Holds(k, st) ==
                   /\ st.num_days = Cardinality(Kept(k))
                   /\ st.num_days > 0
                   /\ 2 * (st.mean * st.num_days - 100 * Sum(k)) <= st.num_days
                   /\ 2 * (100 * Sum(k) - st.mean * st.num_days) <= st.num_days
                   /\ \E i \in Kept(k) : st.min = 100 * Val(k, i)
                   /\ \A i \in Kept(k) : st.min <= 100 * Val(k, i)
                   /\ \E i \in Kept(k) : st.max = 100 * Val(k, i)
                   /\ \A i \in Kept(k) : st.max >= 100 * Val(k, i)
                   /\ \E i \in Kept(k) : st.median = 100 * Val(k, i)
                   /\ Cardinality({i \in Kept(k) : 100 * Val(k, i) < st.median})
                         <= st.num_days \div 2
                   /\ Cardinality({i \in Kept(k) : 100 * Val(k, i) <= st.median})
                         > st.num_days \div 2
           IN
           IF Kept(1) = {} \/ Kept(2) = {}
           THEN last.raised /\ last.ret.error = "No valid data points found"
           ELSE /\ ~last.raised
                /\ Holds(1, last.ret.stats[1].sm_surface)
                /\ Holds(2, last.ret.stats[1].sm_rootzone)

\* statistics returned for a timeseries that holds a NODATA row
C17_Witness ==
    /\ last.op = "get_statistics"
    /\ ~last.raised
    /\ \E i \in DOMAIN last.ret.timeseries :
          last.ret.timeseries[i].values[2] = NODATA_VALUE
    /\ last.ret.stats[1].sm_rootzone.num_days = 2
    /\ last.ret.stats[1].sm_rootzone.mean = 550

\* C18: calculate_statistics leaves the rows whose primary variable is -999 out:
\* a period yields the statistics of the same period with those rows removed.
C18_NodataExcluded ==
    last.op = "calculate_statistics"
        => last.ret.stats
             = calculate_statistics(WithoutNodata(last.ret.data, last.ret.dataset),
                                    last.ret.dataset)

\* C19 as stated: mean_difference = mean2 - mean1 and mean_percent_change is
\* exactly mean_difference / mean1 * 100 (0 when mean1 = 0); an error object
\* when a period has no statistics.
C19_ExactPercent ==
    last.op = "calculate_comparison"
        => LET a == last.ret
               c == a.comparison
           IN
           IF a.stats_1 = None \/ a.stats_2 = None
           THEN c.error # ""
           ELSE /\ c.error = ""
                /\ c.mean_difference = a.stats_2[1].mean - a.stats_1[1].mean
                /\ IF a.stats_1[1].mean = 0 THEN c.mean_percent_change = 0
                   ELSE c.mean_percent_change * a.stats_1[1].mean
                           = c.mean_difference * 10000

\* C19: mean_difference = mean2 - mean1, and mean_percent_change is
\* mean_difference / mean1 * 100 rounded to two decimals, 0 when mean1 = 0;
\* when a period has no statistics the result is an error object.
C19_Comparison ==
    last.op = "calculate_comparison"
        => LET a == last.ret
               c == a.comparison
               Abs(x) == IF x < 0 THEN 0 - x ELSE x
           IN
           IF a.stats_1 = None \/ a.stats_2 = None
           THEN c.error # ""
           ELSE /\ c.error = ""
                /\ c.mean_difference = a.stats_2[1].mean - a.stats_1[1].mean
                /\ IF a.stats_1[1].mean = 0 THEN c.mean_percent_change = 0
                   ELSE 2 * Abs(c.mean_percent_change * a.stats_1[1].mean
                                  - c.mean_difference * 10000)
                           <= Abs(a.stats_1[1].mean)

\* a comparison whose percentage has more than two decimals: 3.00 against 4.00
C19_Witness ==
    /\ last.op = "calculate_comparison"
    /\ last.ret.stats_1 # None
    /\ last.ret.stats_2 # None
    /\ last.ret.stats_1[1].mean = 300
    /\ last.ret.stats_2[1].mean = 400
    /\ last.ret.comparison.mean_difference = 100
    /\ last.ret.comparison.mean_percent_change = 3333

C21_ZipAtMost31 ==
    (/\ last.op = "export_geotiff"
     /\ last.ret.export_mode = "zip"
     /\ last.ret.result # None)
        => Len(last.ret.result[1].files) <= 31

\* C22: in multiband mode the descriptor has at most 366 time steps for the
\* daily sources and at most 60 for the monthly sources.
C22_BandsCapped ==
    (/\ last.op = "export_geotiff"
     /\ last.ret.export_mode = "multiband"
     /\ last.ret.result # None)
        => last.ret.result[1].steps
              <= (IF last.ret.extractor \in {"chirps", "era5land", "smap"} THEN 366 ELSE 60)

\* C23: a timeseries request with a point whose latitude is outside [-90, 90]
\* or whose longitude is outside [-180, 180] is answered with 400, and no
\* request is sent to Earth Engine.
C23_CoordinatesChecked ==
    (last.op = "timeseries" /\ last.ret.body # None)
        => LET g == last.ret.body[1].geometry IN
           (/\ g.type = "point"
            /\ (g.lat < -90 \/ g.lat > 90 \/ g.lon < -180 \/ g.lon > 180))
               => (last.ret.code = 400 /\ last.ret.calls = 0)

\* C24: the ERA5-Land and SMAP timeseries routes refuse a request as too long
\* (400 with max_days = 30) exactly when end - start + 1 exceeds 30 days.
C24_ThirtyDaySpan ==
    (/\ last.op = "timeseries"
     /\ last.ret.dataset \in {"era5land", "smap"}
     /\ last.ret.body # None
     /\ parse_geometry(last.ret.body[1].geometry).exc = None
     /\ last.ret.dataset = "smap" => last.ret.body[1].start >= SmapStart)
        => LET b == last.ret.body[1]
               span == (b.end - b.start) + 1
           IN (last.ret.code = 400 /\ last.ret.max_days = Some(30)) <=> span > 30

\* C25: for chirps and smap the mean percent change p = (mean2 - mean1) /
\* mean1 * 100 (0 when mean1 = 0) falls in exactly one bucket:
\* p < -30 much drier/severe; -30 <= p < -15 drier/moderate; p > 30 much
\* wetter/high; 15 < p <= 30 wetter/moderate; -15 <= p <= 15 similar/none.
C25_Buckets ==
    (/\ last.op = "calculate_comparison"
     /\ last.ret.dataset \in {"chirps", "smap"}
     /\ last.ret.stats_1 # None
     /\ last.ret.stats_2 # None)
        => LET m1 == last.ret.stats_1[1].mean
               d == last.ret.stats_2[1].mean - m1
               c == last.ret.comparison
               \* p < k and p > k for p = d / m1 * 100, cleared of the division
               Lt(k) == IF m1 > 0 THEN 100 * d < k * m1
                        ELSE IF m1 < 0 THEN 100 * d > k * m1 ELSE 0 < k
               Gt(k) == IF m1 > 0 THEN 100 * d > k * m1
                        ELSE IF m1 < 0 THEN 100 * d < k * m1 ELSE 0 > k
               bucket == <<c.status, c.severity>>
           IN
           /\ Lt(-30) <=> bucket = <<"Period 2 is much drier", "severe">>
           /\ (~Lt(-30) /\ Lt(-15)) <=> bucket = <<"Period 2 is drier", "moderate">>
           /\ Gt(30) <=> bucket = <<"Period 2 is much wetter", "high">>
           /\ (Gt(15) /\ ~Gt(30)) <=> bucket = <<"Period 2 is wetter", "moderate">>
           /\ (~Lt(-15) /\ ~Gt(15)) <=> bucket = <<"Periods are similar", "none">>

\* a change of exactly -30 percent (10.00 to 7.00) is 'drier', not 'much drier'
C25_Witness ==
    /\ last.op = "calculate_comparison"
    /\ last.ret.dataset = "smap"
    /\ last.ret.stats_1 # None
    /\ last.ret.stats_2 # None
    /\ last.ret.stats_1[1].mean = 1000
    /\ last.ret.stats_2[1].mean = 700
    /\ last.ret.comparison.mean_percent_change = -3000
    /\ last.ret.comparison.status = "Period 2 is drier"
    /\ last.ret.comparison.severity = "moderate"

\* C30: for era5land the status says hotter or much hotter only when
\* mean2 > mean1 and cooler or much cooler only when mean2 < mean1, for every
\* pair of means, negative ones included.
C30_StatusFollowsDifference ==
    (/\ last.op = "calculate_comparison"
     /\ last.ret.dataset = "era5land"
     /\ last.ret.stats_1 # None
     /\ last.ret.stats_2 # None)
        => LET mean1 == last.ret.stats_1[1].mean
               mean2 == last.ret.stats_2[1].mean
               status == last.ret.comparison.status
           IN
           /\ status \in {"Period 2 is hotter", "Period 2 is much hotter"}
                 => mean2 > mean1
           /\ status \in {"Period 2 is cooler", "Period 2 is much cooler"}
                 => mean2 < mean1

\* C26: the median get_statistics returns is the statistical median of the
\* valid values: the middle one of an odd number of values, the mean of the
\* two middle ones of an even number.
C26_StatisticalMedian ==
    (last.op = "get_statistics" /\ ~last.raised)
        => LET ts == last.ret.timeseries
               Median(k) ==
                   LET sorted == Sorted(Valid(Column(ts, k)))
                       n == Len(sorted)
                   IN IF n % 2 = 1 THEN 100 * sorted[(n + 1) \div 2]
                      ELSE 50 * (sorted[n \div 2] + sorted[(n \div 2) + 1])
           IN
           /\ last.ret.stats[1].sm_surface.median = Median(1)
           /\ last.ret.stats[1].sm_rootzone.median = Median(2)

\* C29: in every state reached by create_job, mark_running, mark_done,
\* mark_error and execute_geotiff_job a job whose status is done has no error.
C29_DoneHasNoError ==
    \A id \in DOMAIN files : files[id].status = DONE => files[id].error = None

\* C27: when two update_job calls on one job, each supplying different fields,
\* have both returned True, the stored record holds the values of both.
C27_NoLostUpdate ==
    LET Supplied(a) == {f \in {"status", "progress", "error"} : a[f] # None} IN
    \A t \in Threads, u \in Threads :
        (/\ t # u
         /\ threads[t].pc = "returned" /\ threads[t].ret
         /\ threads[u].pc = "returned" /\ threads[u].ret
         /\ threads[t].job_id = threads[u].job_id
         /\ Supplied(threads[t].args) \cap Supplied(threads[u].args) = {})
            => LET id == threads[t].job_id
                   a == threads[t].args
               IN
               /\ id \notin torn
               /\ a.status # None => files[id].status = a.status[1]
               /\ a.progress # None => files[id].progress = a.progress[1]
               /\ a.error # None => files[id].error = a.error

\* C28: get_job of a job that was created and not removed returns its record,
\* also while update_job rewrites the file.
C28_ExistingJobFound ==
    (last.op = "get_job" /\ last.id \in DOMAIN files)
        => last.ret.job # None

====
